---- MODULE Spec2Model ----
(***************************************************************************)
(* The mutual-fund cache of MF-ing-api: the Redis keyspace that            *)
(* AMFINavCache fills (background/nav_redis.py), the autocomplete search   *)
(* over it (background/search.py) and the paging handler (app.py).         *)
(*                                                                         *)
(* Strings are TLA+ strings; TLC evaluates Len, SubSeq and \o on them, so  *)
(* keys are built and taken apart character by character as Python does.  *)
(***************************************************************************)
EXTENDS Integers, Sequences, FiniteSets, TLC

\* ------------------------------------------------------------ key space

SCHEME_TYPE_PREFIX == "SCHEME_TYPE"
SCHEME_SUB_TYPE_PREFIX == "SCHEME_SUB_TYPE"
SCHEME_SUB_TYPE_FUND_HOUSE_PREFIX == "SCHEME_SUB_TYPE_FUND_HOUSE"
FUND_HOUSE_PREFIX == "FUND_HOUSE"
FUND_PREFIX == "FUND"
PREFIX_DELIMTER == ":"

FUND_HOUSE_AUTOCOMPLETER_KEY == "fund_house_ac"
FUND_AUTOCOMPLETER_KEY == "fund_ac"
SCHEME_SUB_TYPE_AUTOCOMPLETER_KEY == "scheme_sub_type_ac"
SCHEME_SUB_TYPE_FUND_HOUSE_AUTOCOMPLETER_KEY == "scheme_sub_type_fund_house_ac"

\* AMFINavCache.AUTOCOMPLETE_WEIGHT = 1.0
AUTOCOMPLETE_WEIGHT == 1

\* ------------------------------------------------------------ bounds

\* Rebuild invocations (update_mf_cache calls) in one behaviour.
MaxRebuilds == 2
\* Store commands that raise (connectivity failures) in one behaviour.
MaxFailures == 1
\* Page indexes 0..MaxPg and page sizes 0..MaxCount asked of fetch_all_funds.
MaxPg == 2
MaxCount == 3

\* Suggestions registered by direct calls of the write operations.
MaxRegistered == 2

\* ------------------------------------------------------------ Python str

\* The characters the model's strings use, in code-point order.
CodePoints == "0123456789:ABCDEFGHIJKLMNOPQRSTUVWXYZ_abcdefghijklmnopqrstuvwxyz"

Ord(c) == CHOOSE i \in 1..Len(CodePoints) : SubSeq(CodePoints, i, i) = c

\* str.startswith
StartsWith(s, p) == Len(p) <= Len(s) /\ SubSeq(s, 1, Len(p)) = p

\* str.replace(old, '') : every non-overlapping occurrence, left to right.
RECURSIVE StrRemoveAll(_, _)
StrRemoveAll(s, old) ==
    IF Len(s) < Len(old) THEN s
    ELSE IF SubSeq(s, 1, Len(old)) = old
         THEN StrRemoveAll(SubSeq(s, Len(old) + 1, Len(s)), old)
         ELSE SubSeq(s, 1, 1) \o StrRemoveAll(SubSeq(s, 2, Len(s)), old)

\* str.split(sep) with a one-character separator: a list of Len >= 1.
RECURSIVE StrSplit(_, _)
StrSplit(s, sep) ==
    LET hits == {i \in 1..Len(s) : SubSeq(s, i, i) = sep}
    IN  IF hits = {} THEN <<s>>
        ELSE LET i == CHOOSE j \in hits : \A k \in hits : j <= k
             IN  <<SubSeq(s, 1, i - 1)>> \o StrSplit(SubSeq(s, i + 1, Len(s)), sep)

\* a < b for Python str: code-point lexicographic order.
RECURSIVE StrLess(_, _)
StrLess(a, b) ==
    IF Len(b) = 0 THEN FALSE
    ELSE IF Len(a) = 0 THEN TRUE
    ELSE LET x == Ord(SubSeq(a, 1, 1))
             y == Ord(SubSeq(b, 1, 1))
         IN  IF x # y THEN x < y
             ELSE StrLess(SubSeq(a, 2, Len(a)), SubSeq(b, 2, Len(b)))

\* sorted(list) of a list of str.
RECURSIVE InsertSorted(_, _)
InsertSorted(sorted, x) ==
    IF sorted = <<>> THEN <<x>>
    ELSE IF StrLess(x, Head(sorted)) THEN <<x>> \o sorted
    ELSE <<Head(sorted)>> \o InsertSorted(Tail(sorted), x)

RECURSIVE Sorted(_)
Sorted(lst) ==
    IF lst = <<>> THEN <<>> ELSE InsertSorted(Sorted(Tail(lst)), Head(lst))

\* list[lo:hi] for 0 <= lo, 0 <= hi (indexes past the end are clamped).
PySlice(lst, lo, hi) ==
    LET n == Len(lst)
        a == IF lo > n THEN n ELSE lo
        b == IF hi > n THEN n ELSE hi
    IN  IF a >= b THEN <<>> ELSE SubSeq(lst, a + 1, b)

\* The elements of a list, as a set (set(list), and the *args of sadd).
Range(lst) == {lst[i] : i \in 1..Len(lst)}

\* A set of str as a list in some order (the order redis returns keys in).
RECURSIVE SetToList(_)
SetToList(S) ==
    IF S = {} THEN <<>>
    ELSE LET x == CHOOSE y \in S : TRUE IN <<x>> \o SetToList(S \ {x})

\* replace_prefix with str.replace(old, '', 1): the first occurrence only.
replace_prefix_first_only(prefix, item) ==
    LET old == prefix \o PREFIX_DELIMTER
        hits == {i \in 1..(Len(item) - Len(old) + 1) :
                     SubSeq(item, i, i + Len(old) - 1) = old}
    IN  IF hits = {} THEN item
        ELSE LET i == CHOOSE j \in hits : \A k \in hits : j <= k
             IN  SubSeq(item, 1, i - 1) \o SubSeq(item, i + Len(old), Len(item))

\* replace_prefix = lambda prefix, item: str(item).replace(f'{prefix}:', '')
replace_prefix(prefix, item) == StrRemoveAll(item, prefix \o PREFIX_DELIMTER)

\* ------------------------------------------------------------ Redis

\* The keyspace is a function from keys to typed values:
\*   [type |-> "string",  val |-> the value SET]
\*   [type |-> "set",     val |-> the members SADDed]
\*   [type |-> "suggest", val |-> a function suggestion string -> score]

\* A SET that is not atomic: over an existing value it replaces the leading
\* entries only, leaving the old trailing ones.
RedisSet_torn(d, key, value) ==
    LET old == IF key \in DOMAIN d /\ d[key].type = "string" THEN d[key].val ELSE value
        new == [i \in 1..Len(value) |->
                   IF i > 5 /\ i <= Len(old) THEN old[i] ELSE value[i]]
    IN  (key :> [type |-> "string", val |-> new]) @@ d

\* SET key value : overwrites whatever the key held.
RedisSet(d, key, value) == (key :> [type |-> "string", val |-> value]) @@ d

\* GET key : nil when the key is absent.
RedisGet(d, key) ==
    IF key \in DOMAIN d /\ d[key].type = "string"
    THEN [nil |-> FALSE, val |-> d[key].val]
    ELSE [nil |-> TRUE, val |-> <<>>]

\* An SADD that stores the members given in place of the set the key held.
RedisSAdd_replace(d, key, members) ==
    (key :> [type |-> "set", val |-> members]) @@ d

\* SADD key member... : set union, creating the key.
RedisSAdd(d, key, members) ==
    LET old == IF key \in DOMAIN d /\ d[key].type = "set" THEN d[key].val ELSE {}
    IN  (key :> [type |-> "set", val |-> old \cup members]) @@ d

\* SMEMBERS key : the empty set (never nil) when the key is absent.
RedisSMembers(d, key) ==
    IF key \in DOMAIN d /\ d[key].type = "set"
    THEN [nil |-> FALSE, val |-> d[key].val]
    ELSE [nil |-> FALSE, val |-> {}]

\* KEYS prefix* : every key of the keyspace that starts with prefix.
RedisKeys(d, prefix) == {k \in DOMAIN d : StartsWith(k, prefix)}

\* FT.SUGADD key string score : adds the suggestion or replaces its score.
RedisSugAdd(d, key, string, score) ==
    LET old == IF key \in DOMAIN d /\ d[key].type = "suggest"
               THEN d[key].val ELSE <<>>
    IN  (key :> [type |-> "suggest", val |-> (string :> score) @@ old]) @@ d

\* s with its i-th character removed.
DropAt(s, i) == SubSeq(s, 1, i - 1) \o SubSeq(s, i + 1, Len(s))

\* Levenshtein distance of a and b is at most 1.
Lev1(a, b) ==
    \/ a = b
    \/ /\ Len(a) = Len(b)
       /\ \E i \in 1..Len(a) : DropAt(a, i) = DropAt(b, i)
    \/ /\ Len(a) = Len(b) + 1
       /\ \E i \in 1..Len(a) : DropAt(a, i) = b
    \/ /\ Len(b) = Len(a) + 1
       /\ \E i \in 1..Len(b) : DropAt(b, i) = a

\* A suggestion matches a query when the query is a prefix of it or, with
\* FUZZY, when one of its prefixes is within Levenshtein distance 1 of the query.
SugMatches(string, query, fuzzy) ==
    \E n \in 0..Len(string) :
        LET p == SubSeq(string, 1, n)
        IN  IF fuzzy THEN Lev1(p, query) ELSE p = query

\* FT.SUGGET key prefix [FUZZY] : the matching suggestions (their rank order is
\* the backend's; the default MAX of 10 is above what this model registers).
RedisSugGet(d, key, query, fuzzy) ==
    IF key \in DOMAIN d /\ d[key].type = "suggest"
    THEN {s \in DOMAIN d[key].val : SugMatches(s, query, fuzzy)}
    ELSE {}

\* ------------------------------------------------------------ amfi.Fund

\* The fields of a fund as the upstream parser yields it.
BaseFields ==
    {"SchemeCode", "SchemeName", "ISINDivPayoutGrowth", "ISINDivReinvestment",
     "NAV", "Date"}

\* The fields _async_update_mf_cache stamps on a fund.
StampFields == {"SchemeType", "SchemeSubType", "SchemeFundHouse"}

\* The order a record's fields are written in.
FieldOrder ==
    <<"SchemeCode", "SchemeName", "ISINDivPayoutGrowth", "ISINDivReinvestment",
      "NAV", "Date", "SchemeType", "SchemeSubType", "SchemeFundHouse">>

\* amfi.serialize_fund: the flat, self-describing text of a record, one
\* (field name, value) entry per field.
serialize_fund(fund) ==
    [i \in 1..Len(FieldOrder) |-> <<FieldOrder[i], fund[FieldOrder[i]]>>]

\* amfi.deserialize_fund: the record a text describes.
deserialize_fund(data) ==
    [f \in {data[i][1] : i \in 1..Len(data)} |->
        LET i == CHOOSE j \in 1..Len(data) : data[j][1] = f IN data[i][2]]

\* ------------------------------------------------------------ snapshots

\* A fund as amfi.get_all_mfs yields it.
Fund(code, name, nav, date) ==
    [SchemeCode |-> code, SchemeName |-> name, ISINDivPayoutGrowth |-> "-",
     ISINDivReinvestment |-> "-", NAV |-> nav, Date |-> date]

\* The nested mapping amfi.get_all_mfs returns, in iteration order:
\* scheme type -> scheme sub-type -> fund house -> list of funds.
\* Fund "a" changes its NAV between SnapOld and SnapNew; SnapNew has the
\* sub-type "S" and the house "H" under both scheme types, and the house "G"
\* under one of them only; in SnapOther fund "b" has moved from house "H" of
\* sub-type "S" to house "G" of sub-type "R".
SnapOld ==
    << [name |-> "T", subs |-> <<
         [name |-> "S", houses |-> <<
           [name |-> "H", funds |-> <<Fund("1", "a", "10", "d1")>>] >>] >>] >>

SnapNew ==
    << [name |-> "T", subs |-> <<
         [name |-> "S", houses |-> <<
           [name |-> "H", funds |-> <<Fund("1", "a", "11", "d2")>>] >>] >>],
       [name |-> "U", subs |-> <<
         [name |-> "S", houses |-> <<
           [name |-> "H", funds |-> <<Fund("2", "b", "20", "d2")>>],
           [name |-> "G", funds |-> <<Fund("3", "ab", "30", "d2")>>] >>] >>] >>

SnapOther ==
    << [name |-> "U", subs |-> <<
         [name |-> "R", houses |-> <<
           [name |-> "G", funds |-> <<Fund("2", "b", "21", "d3")>>] >>] >>] >>

Snapshots == <<SnapOld, SnapNew, SnapOther>>

\* ------------------------------------------------------------ the rebuild

\* The stamping with the sub-type and the fund house exchanged.
Stamp_exchanged(fund, scheme_type_name, scheme_sub_type_name, fund_house_name) ==
    [f \in {"SchemeCode", "SchemeName", "ISINDivPayoutGrowth", "ISINDivReinvestment",
            "NAV", "Date", "SchemeType", "SchemeSubType", "SchemeFundHouse"} |->
        IF f = "SchemeType" THEN scheme_type_name
        ELSE IF f = "SchemeSubType" THEN fund_house_name
        ELSE IF f = "SchemeFundHouse" THEN scheme_sub_type_name
        ELSE fund[f]]

\* fund.SchemeType = ...; fund.SchemeSubType = ...; fund.SchemeFundHouse = ...
Stamp(fund, scheme_type_name, scheme_sub_type_name, fund_house_name) ==
    [f \in BaseFields \cup StampFields |->
        IF f = "SchemeType" THEN scheme_type_name
        ELSE IF f = "SchemeSubType" THEN scheme_sub_type_name
        ELSE IF f = "SchemeFundHouse" THEN fund_house_name
        ELSE fund[f]]

Names(entries) == [i \in 1..Len(entries) |-> entries[i].name]

\* The innermost loop: one _set_fund per fund, then the two house adds.
HouseFutures(t, s, house) ==
    LET fund_list == [i \in 1..Len(house.funds) |-> house.funds[i].SchemeName]
    IN  [i \in 1..Len(house.funds) |->
            [op |-> "_set_fund", fund |-> Stamp(house.funds[i], t, s, house.name)]]
        \o << [op |-> "_add_fund_house_under_sub_type",
               scheme_sub_type |-> s, fund_house_name |-> house.name,
               fund_scheme_names |-> fund_list],
              [op |-> "_add_fund_house",
               fund_house_name |-> house.name, fund_scheme_names |-> fund_list] >>

RECURSIVE HousesFutures(_, _, _)
HousesFutures(t, s, houses) ==
    IF houses = <<>> THEN <<>>
    ELSE HouseFutures(t, s, Head(houses)) \o HousesFutures(t, s, Tail(houses))

SubTypeFutures(t, sub) ==
    HousesFutures(t, sub.name, sub.houses)
    \o << [op |-> "_add_scheme_sub_type", scheme_type |-> t,
           scheme_sub_type |-> sub.name, fund_house_names |-> Names(sub.houses)] >>

RECURSIVE SubTypesFutures(_, _)
SubTypesFutures(t, subs) ==
    IF subs = <<>> THEN <<>>
    ELSE SubTypeFutures(t, Head(subs)) \o SubTypesFutures(t, Tail(subs))

TypeFutures(type) ==
    SubTypesFutures(type.name, type.subs)
    \o << [op |-> "_add_scheme_type", scheme_type |-> type.name,
           scheme_sub_types |-> Names(type.subs)] >>

\* redis_futures as _async_update_mf_cache has built it when it reaches gather.
RECURSIVE redis_futures(_)
redis_futures(parsed_funds) ==
    IF parsed_funds = <<>> THEN <<>>
    ELSE TypeFutures(Head(parsed_funds)) \o redis_futures(Tail(parsed_funds))

\* ------------------------------------------------------------ state

\* The processes that may call update_mf_cache (each runs its own event loop).
Workers == {"w1", "w2"}

VARIABLES
    db,        \* the Redis keyspace
    status,    \* per worker: "idle", "running", "completed" or "failed"
    snap,      \* per worker: the index in Snapshots of what get_all_mfs returned
    pos,       \* per worker: the index in redis_futures of the task that runs next
    pc,        \* per worker: 0 before the task's first store command, 1 after it
    raised,    \* per worker: a task of the batch has raised
    rebuilds,  \* update_mf_cache calls so far
    failures,  \* store commands that raised so far
    resp       \* what the last read call returned

\* The answered operation leads, so that two states are told apart by it
\* before answers of different shapes are compared.
vars == <<resp.call, db, status, snap, pos, pc, raised, rebuilds, failures, resp>>

NoResp == [call |-> "", args |-> <<>>, exc |-> "", key |-> "", val |-> <<>>,
           cmds |-> {}]

Init ==
    /\ db = <<>>
    /\ status = [w \in Workers |-> "idle"]
    /\ snap = [w \in Workers |-> 0]
    /\ pos = [w \in Workers |-> 0]
    /\ pc = [w \in Workers |-> 0]
    /\ raised = [w \in Workers |-> FALSE]
    /\ rebuilds = 0
    /\ failures = 0
    /\ resp = NoResp

\* redis_futures for each snapshot.
Batches == [i \in 1..Len(Snapshots) |-> redis_futures(Snapshots[i])]

Batch(w) == Batches[snap[w]]

Running(w) == status[w] = "running" /\ pos[w] <= Len(Batch(w))

Task(w) == Batch(w)[pos[w]]

\* The task of w is done: the event loop runs the next one.
NextTask(w) ==
    /\ pos' = [pos EXCEPT ![w] = @ + 1]
    /\ pc' = [pc EXCEPT ![w] = 0]

\* update_mf_cache behind a lock: refused while any rebuild is running.
update_mf_cache_exclusive(w) ==
    /\ \A v \in Workers : status[v] # "running"
    /\ rebuilds < MaxRebuilds
    /\ \E i \in 1..Len(Snapshots) : snap' = [snap EXCEPT ![w] = i]
    /\ status' = [status EXCEPT ![w] = "running"]
    /\ pos' = [pos EXCEPT ![w] = 1]
    /\ pc' = [pc EXCEPT ![w] = 0]
    /\ raised' = [raised EXCEPT ![w] = FALSE]
    /\ rebuilds' = rebuilds + 1
    /\ UNCHANGED <<db, failures, resp>>

\* update_mf_cache: asyncio.run(_async_update_mf_cache()) up to the gather.
\* Nothing in it looks at whether another rebuild is running.
update_mf_cache(w) ==
    /\ status[w] # "running"
    /\ rebuilds < MaxRebuilds
    /\ \E i \in 1..Len(Snapshots) : snap' = [snap EXCEPT ![w] = i]
    /\ status' = [status EXCEPT ![w] = "running"]
    /\ pos' = [pos EXCEPT ![w] = 1]
    /\ pc' = [pc EXCEPT ![w] = 0]
    /\ raised' = [raised EXCEPT ![w] = FALSE]
    /\ rebuilds' = rebuilds + 1
    /\ UNCHANGED <<db, failures, resp>>

\* _set_fund keyed by the scheme code instead of the scheme name.
_set_fund_by_code(w) ==
    /\ Running(w)
    /\ Task(w).op = "_set_fund"
    /\ LET fund == Task(w).fund
           serialized == serialize_fund(fund)
           fund_key == FUND_PREFIX \o PREFIX_DELIMTER \o fund.SchemeCode
       IN  \/ /\ pc[w] = 0
              /\ db' = RedisSet(db, fund_key, serialized)
              /\ pc' = [pc EXCEPT ![w] = 1]
              /\ UNCHANGED pos
           \/ /\ pc[w] = 1
              /\ db' = RedisSugAdd(db, FUND_AUTOCOMPLETER_KEY, fund_key,
                                   AUTOCOMPLETE_WEIGHT)
              /\ NextTask(w)
    /\ UNCHANGED <<status, snap, raised, rebuilds, failures, resp>>

\* _set_fund registering the suggestion before it stores the record.
_set_fund_suggests_first(w) ==
    /\ Running(w)
    /\ Task(w).op = "_set_fund"
    /\ LET fund == Task(w).fund
           serialized == serialize_fund(fund)
           fund_key == FUND_PREFIX \o PREFIX_DELIMTER \o fund.SchemeName
       IN  \/ /\ pc[w] = 0
              /\ db' = RedisSugAdd(db, FUND_AUTOCOMPLETER_KEY, fund_key,
                                   AUTOCOMPLETE_WEIGHT)
              /\ pc' = [pc EXCEPT ![w] = 1]
              /\ UNCHANGED pos
           \/ /\ pc[w] = 1
              /\ db' = RedisSet(db, fund_key, serialized)
              /\ NextTask(w)
    /\ UNCHANGED <<status, snap, raised, rebuilds, failures, resp>>

_set_fund(w) ==
    /\ Running(w)
    /\ Task(w).op = "_set_fund"
    /\ LET fund == Task(w).fund
           serialized == serialize_fund(fund)
           fund_key == FUND_PREFIX \o PREFIX_DELIMTER \o fund.SchemeName
       IN  \/ /\ pc[w] = 0
              /\ db' = RedisSet(db, fund_key, serialized)
              /\ pc' = [pc EXCEPT ![w] = 1]
              /\ UNCHANGED pos
           \/ /\ pc[w] = 1
              /\ db' = RedisSugAdd(db, FUND_AUTOCOMPLETER_KEY, fund_key,
                                   AUTOCOMPLETE_WEIGHT)
              /\ NextTask(w)
    /\ UNCHANGED <<status, snap, raised, rebuilds, failures, resp>>

\* _add_fund_house registering its suggestion in the fund autocompleter.
_add_fund_house_in_fund_ac(w) ==
    /\ Running(w)
    /\ Task(w).op = "_add_fund_house"
    /\ LET fund_house_key ==
               FUND_HOUSE_PREFIX \o PREFIX_DELIMTER \o Task(w).fund_house_name
       IN  \/ /\ pc[w] = 0
              /\ db' = RedisSAdd(db, fund_house_key, Range(Task(w).fund_scheme_names))
              /\ pc' = [pc EXCEPT ![w] = 1]
              /\ UNCHANGED pos
           \/ /\ pc[w] = 1
              /\ db' = RedisSugAdd(db, FUND_AUTOCOMPLETER_KEY, fund_house_key,
                                   AUTOCOMPLETE_WEIGHT)
              /\ NextTask(w)
    /\ UNCHANGED <<status, snap, raised, rebuilds, failures, resp>>

\* _add_fund_house adding the house name where the fund names belong.
_add_fund_house_adds_house_name(w) ==
    /\ Running(w)
    /\ Task(w).op = "_add_fund_house"
    /\ LET fund_house_key ==
               FUND_HOUSE_PREFIX \o PREFIX_DELIMTER \o Task(w).fund_house_name
       IN  \/ /\ pc[w] = 0
              /\ db' = RedisSAdd(db, fund_house_key, {Task(w).fund_house_name})
              /\ pc' = [pc EXCEPT ![w] = 1]
              /\ UNCHANGED pos
           \/ /\ pc[w] = 1
              /\ db' = RedisSugAdd(db, FUND_HOUSE_AUTOCOMPLETER_KEY, fund_house_key,
                                   AUTOCOMPLETE_WEIGHT)
              /\ NextTask(w)
    /\ UNCHANGED <<status, snap, raised, rebuilds, failures, resp>>

_add_fund_house(w) ==
    /\ Running(w)
    /\ Task(w).op = "_add_fund_house"
    /\ LET fund_house_key ==
               FUND_HOUSE_PREFIX \o PREFIX_DELIMTER \o Task(w).fund_house_name
       IN  \/ /\ pc[w] = 0
              /\ db' = RedisSAdd(db, fund_house_key, Range(Task(w).fund_scheme_names))
              /\ pc' = [pc EXCEPT ![w] = 1]
              /\ UNCHANGED pos
           \/ /\ pc[w] = 1
              /\ db' = RedisSugAdd(db, FUND_HOUSE_AUTOCOMPLETER_KEY, fund_house_key,
                                   AUTOCOMPLETE_WEIGHT)
              /\ NextTask(w)
    /\ UNCHANGED <<status, snap, raised, rebuilds, failures, resp>>

_add_fund_house_under_sub_type(w) ==
    /\ Running(w)
    /\ Task(w).op = "_add_fund_house_under_sub_type"
    /\ LET scheme_sub_type_fund_house_key ==
               SCHEME_SUB_TYPE_FUND_HOUSE_PREFIX \o PREFIX_DELIMTER
               \o Task(w).scheme_sub_type \o PREFIX_DELIMTER
               \o Task(w).fund_house_name
       IN  \/ /\ pc[w] = 0
              /\ db' = RedisSAdd(db, scheme_sub_type_fund_house_key,
                                 Range(Task(w).fund_scheme_names))
              /\ pc' = [pc EXCEPT ![w] = 1]
              /\ UNCHANGED pos
           \/ /\ pc[w] = 1
              /\ db' = RedisSugAdd(db, SCHEME_SUB_TYPE_FUND_HOUSE_AUTOCOMPLETER_KEY,
                                   scheme_sub_type_fund_house_key,
                                   AUTOCOMPLETE_WEIGHT)
              /\ NextTask(w)
    /\ UNCHANGED <<status, snap, raised, rebuilds, failures, resp>>

\* _add_scheme_sub_type keyed by the bare sub-type name.
_add_scheme_sub_type_bare_name(w) ==
    /\ Running(w)
    /\ Task(w).op = "_add_scheme_sub_type"
    /\ LET scheme_sub_type_key ==
               SCHEME_SUB_TYPE_PREFIX \o PREFIX_DELIMTER \o Task(w).scheme_sub_type
       IN  \/ /\ pc[w] = 0
              /\ db' = RedisSAdd(db, scheme_sub_type_key,
                                 Range(Task(w).fund_house_names))
              /\ pc' = [pc EXCEPT ![w] = 1]
              /\ UNCHANGED pos
           \/ /\ pc[w] = 1
              /\ db' = RedisSugAdd(db, SCHEME_SUB_TYPE_AUTOCOMPLETER_KEY,
                                   scheme_sub_type_key, AUTOCOMPLETE_WEIGHT)
              /\ NextTask(w)
    /\ UNCHANGED <<status, snap, raised, rebuilds, failures, resp>>

_add_scheme_sub_type(w) ==
    /\ Running(w)
    /\ Task(w).op = "_add_scheme_sub_type"
    /\ LET scheme_sub_type_key ==
               SCHEME_SUB_TYPE_PREFIX \o PREFIX_DELIMTER \o Task(w).scheme_type
               \o PREFIX_DELIMTER \o Task(w).scheme_sub_type
       IN  \/ /\ pc[w] = 0
              /\ db' = RedisSAdd(db, scheme_sub_type_key,
                                 Range(Task(w).fund_house_names))
              /\ pc' = [pc EXCEPT ![w] = 1]
              /\ UNCHANGED pos
           \/ /\ pc[w] = 1
              /\ db' = RedisSugAdd(db, SCHEME_SUB_TYPE_AUTOCOMPLETER_KEY,
                                   scheme_sub_type_key, AUTOCOMPLETE_WEIGHT)
              /\ NextTask(w)
    /\ UNCHANGED <<status, snap, raised, rebuilds, failures, resp>>

_add_scheme_type(w) ==
    /\ Running(w)
    /\ Task(w).op = "_add_scheme_type"
    /\ LET scheme_type_key ==
               SCHEME_TYPE_PREFIX \o PREFIX_DELIMTER \o Task(w).scheme_type
       IN  db' = RedisSAdd(db, scheme_type_key, Range(Task(w).scheme_sub_types))
    /\ NextTask(w)
    /\ UNCHANGED <<status, snap, raised, rebuilds, failures, resp>>

\* A store command of the running task raises (the store is unreachable): the
\* task ends there, without the commands it had left. gather does not cancel
\* the other tasks of the batch; they were all scheduled before any could raise.
TaskRaises(w) ==
    /\ Running(w)
    /\ failures < MaxFailures
    /\ failures' = failures + 1
    /\ raised' = [raised EXCEPT ![w] = TRUE]
    /\ NextTask(w)
    /\ UNCHANGED <<db, status, snap, rebuilds, resp>>

\* gather with return_exceptions=True: what a task raised is not re-raised.
gather_return_exceptions(w) ==
    /\ status[w] = "running"
    /\ pos[w] = Len(Batch(w)) + 1
    /\ status' = [status EXCEPT ![w] = "completed"]
    /\ UNCHANGED <<db, snap, pos, pc, raised, rebuilds, failures, resp>>

\* gather emptying the store when a task has raised.
gather_flushes_on_failure(w) ==
    /\ status[w] = "running"
    /\ pos[w] = Len(Batch(w)) + 1
    /\ status' = [status EXCEPT ![w] = IF raised[w] THEN "failed" ELSE "completed"]
    /\ db' = IF raised[w] THEN <<>> ELSE db
    /\ UNCHANGED <<snap, pos, pc, raised, rebuilds, failures, resp>>

\* await asyncio.gather(*redis_futures) returns, or raises what a task raised.
gather(w) ==
    /\ status[w] = "running"
    /\ pos[w] = Len(Batch(w)) + 1
    /\ status' = [status EXCEPT ![w] = IF raised[w] THEN "failed" ELSE "completed"]
    /\ UNCHANGED <<db, snap, pos, pc, raised, rebuilds, failures, resp>>

Rebuild ==
    \E w \in Workers :
        \/ update_mf_cache(w)
        \/ _set_fund(w)
        \/ _add_fund_house_under_sub_type(w)
        \/ _add_fund_house(w)
        \/ _add_scheme_sub_type(w)
        \/ _add_scheme_type(w)
        \/ gather(w)

\* The rebuild alone, with store commands that may raise.
NextFail == Rebuild \/ \E w \in Workers : TaskRaises(w)

SpecFail == Init /\ [][NextFail]_vars

\* The event loop of asyncio.run runs every scheduled task and then lets gather
\* return: a running rebuild keeps taking steps.
SpecFailFair ==
    /\ Init
    /\ [][NextFail]_vars
    /\ \A w \in Workers :
          WF_vars(\/ _set_fund(w)
                  \/ _add_fund_house_under_sub_type(w)
                  \/ _add_fund_house(w)
                  \/ _add_scheme_sub_type(w)
                  \/ _add_scheme_type(w)
                  \/ gather(w))

\* ------------------------------------------------------------ reads

\* What a call gives back: the exception it raised ("" when it returned), the
\* argument the exception carries, the value returned, and the store commands
\* the call issued.
Returned(val, cmds) == [exc |-> "", key |-> "", val |-> val, cmds |-> cmds]

Raised(exc, key, cmds) == [exc |-> exc, key |-> key, val |-> <<>>, cmds |-> cmds]

\* get_fund raising with the storage key instead of the name it was asked for.
get_fund_raises_key_str(d, fund_name) ==
    LET key_str == FUND_PREFIX \o PREFIX_DELIMTER \o fund_name
        json_data == RedisGet(d, key_str)
        cmds == {<<"GET", key_str>>}
    IN  IF json_data.nil
        THEN Raised("FundKeyNotFoundError", key_str, cmds)
        ELSE Returned(deserialize_fund(json_data.val), cmds)

\* AMFINavCache.get_fund
get_fund(d, fund_name) ==
    LET key_str == FUND_PREFIX \o PREFIX_DELIMTER \o fund_name
        json_data == RedisGet(d, key_str)
        cmds == {<<"GET", key_str>>}
    IN  IF json_data.nil
        THEN Raised("FundKeyNotFoundError", fund_name, cmds)
        ELSE Returned(deserialize_fund(json_data.val), cmds)

\* AMFINavCache.get_fund_house. smembers never answers None; were it to,
\* FundHouseKeyNotFoundError.__init__ reads the undefined name `key`.
get_fund_house(d, fund_house_name) ==
    LET key_str == FUND_HOUSE_PREFIX \o PREFIX_DELIMTER \o fund_house_name
        fund_list == RedisSMembers(d, key_str)
        cmds == {<<"SMEMBERS", key_str>>}
    IN  IF fund_list.nil
        THEN Raised("NameError", "key", cmds)
        ELSE Returned(fund_list.val, cmds)

\* get_all_funds asking for the keys of the pattern FUND*, without the delimiter.
get_all_funds_no_delimiter(d) ==
    LET fund_keys == SetToList(RedisKeys(d, FUND_PREFIX))
    IN  Sorted([i \in 1..Len(fund_keys) |-> replace_prefix(FUND_PREFIX, fund_keys[i])])

\* AMFINavCache.get_all_funds
get_all_funds(d) ==
    LET fund_keys == SetToList(RedisKeys(d, FUND_PREFIX \o PREFIX_DELIMTER))
    IN  Sorted([i \in 1..Len(fund_keys) |-> replace_prefix(FUND_PREFIX, fund_keys[i])])

\* AMFINavCache.get_fund_count
get_fund_count(d) == Cardinality(RedisKeys(d, FUND_PREFIX \o PREFIX_DELIMTER))

\* AMFINavCacheSearchClient.AC_TYPES
AC_TYPES ==
    [t \in {"fund", "fund_house", "scheme_sub_type", "scheme_sub_type_fund_house"} |->
        CASE t = "fund" ->
                [prefix |-> FUND_PREFIX, ac_key |-> FUND_AUTOCOMPLETER_KEY]
          [] t = "fund_house" ->
                [prefix |-> FUND_HOUSE_PREFIX, ac_key |-> FUND_HOUSE_AUTOCOMPLETER_KEY]
          [] t = "scheme_sub_type" ->
                [prefix |-> SCHEME_SUB_TYPE_PREFIX,
                 ac_key |-> SCHEME_SUB_TYPE_AUTOCOMPLETER_KEY]
          [] t = "scheme_sub_type_fund_house" ->
                [prefix |-> SCHEME_SUB_TYPE_FUND_HOUSE_PREFIX,
                 ac_key |-> SCHEME_SUB_TYPE_FUND_HOUSE_AUTOCOMPLETER_KEY]]

\* AC_TYPES[query_type]['key_transform']
key_transform(query_type, item) ==
    CASE query_type = "fund" -> replace_prefix(FUND_PREFIX, item)
      [] query_type = "fund_house" -> replace_prefix(FUND_HOUSE_PREFIX, item)
      [] query_type = "scheme_sub_type" ->
            StrSplit(replace_prefix(SCHEME_SUB_TYPE_PREFIX, item), PREFIX_DELIMTER)
      [] query_type = "scheme_sub_type_fund_house" ->
            StrSplit(replace_prefix(SCHEME_SUB_TYPE_FUND_HOUSE_PREFIX, item),
                     PREFIX_DELIMTER)

ENABLE_FUZZY == TRUE

\* AMFINavCacheSearchClient._query
_query(prefix, query) == prefix \o PREFIX_DELIMTER \o query

\* AMFINavCacheSearchClient._search
_search(d, ac, query, fuzzy) == RedisSugGet(d, ac, query, fuzzy)

\* search answering an empty query with no hits, without asking the autocompleter.
search_empty_query_guard(d, query_type, query) ==
    IF query_type \notin DOMAIN AC_TYPES
    THEN Raised("InvalidQueryTypeError", query_type, {})
    ELSE IF query = ""
    THEN Returned({}, {})
    ELSE LET query_provider == AC_TYPES[query_type]
             query_with_prefix == _query(query_provider.prefix, query)
             ac == query_provider.ac_key
             results == _search(d, ac, query_with_prefix, ENABLE_FUZZY)
         IN  Returned({key_transform(query_type, item) : item \in results},
                      {<<"FT.SUGGET", ac>>})

\* search with the assert compiled away: AC_TYPES.get answers None for an unknown
\* type and the first query_provider.get raises AttributeError.
search_no_assert(d, query_type, query) ==
    IF query_type \notin DOMAIN AC_TYPES
    THEN Raised("AttributeError", "get", {})
    ELSE LET query_provider == AC_TYPES[query_type]
             query_with_prefix == _query(query_provider.prefix, query)
             ac == query_provider.ac_key
             results == _search(d, ac, query_with_prefix, ENABLE_FUZZY)
         IN  Returned({key_transform(query_type, item) : item \in results},
                      {<<"FT.SUGGET", ac>>})

\* AMFINavCacheSearchClient.search. The hits are kept as a set: their order is
\* the backend's ranking.
search(d, query_type, query) ==
    IF query_type \notin DOMAIN AC_TYPES
    THEN Raised("InvalidQueryTypeError", query_type, {})
    ELSE LET query_provider == AC_TYPES[query_type]
             query_with_prefix == _query(query_provider.prefix, query)
             ac == query_provider.ac_key
             results == _search(d, ac, query_with_prefix, ENABLE_FUZZY)
         IN  Returned({key_transform(query_type, item) : item \in results},
                      {<<"FT.SUGGET", ac>>})

PAGE_COUNT_LIMIT == 1000

\* int(a / b) for a >= 0, b > 0: the quotient, truncated.
IntDiv(a, b) == a \div b

\* fetch_all_funds counting the pages by rounding up.
fetch_all_funds_ceil(d, pg, count) ==
    IF count > PAGE_COUNT_LIMIT
    THEN Raised("RequestValidationError", "count", {})
    ELSE IF count = 0
    THEN Raised("HTTPException", "Error fetching funds.", {<<"KEYS", "FUND:*">>})
    ELSE LET fund_keys == get_all_funds(d)
             total_pages == IntDiv(Len(fund_keys) + count - 1, count)
         IN  Returned([pg |-> pg,
                       items |-> PySlice(fund_keys, pg * count, pg * count + count),
                       last |-> total_pages],
                      {<<"KEYS", "FUND:*">>})

\* app.fetch_all_funds. Query(10, le=PAGE_COUNT_LIMIT) refuses a larger count
\* before the handler runs; a count of 0 divides by zero, which the handler
\* turns into its HTTPException.
fetch_all_funds(d, pg, count) ==
    IF count > PAGE_COUNT_LIMIT
    THEN Raised("RequestValidationError", "count", {})
    ELSE IF count = 0
    THEN Raised("HTTPException", "Error fetching funds.", {<<"KEYS", "FUND:*">>})
    ELSE LET fund_keys == get_all_funds(d)
             total_pages == IntDiv(Len(fund_keys), count)
         IN  Returned([pg |-> pg,
                       items |-> PySlice(fund_keys, pg * count, pg * count + count),
                       last |-> total_pages],
                      {<<"KEYS", "FUND:*">>})

\* The arguments the read calls are made with.
FundNameArgs == {"a", "b", "ab", "c"}
FundHouseArgs == {"H", "G", "Z"}
QueryTypeArgs == DOMAIN AC_TYPES \cup {"scheme_type", ""}
QueryArgs == {"", "abz", "zz"}
PgArgs == 0..MaxPg
CountArgs == 0..MaxCount \cup {PAGE_COUNT_LIMIT, PAGE_COUNT_LIMIT + 1}

\* A read call is made when the reader holds no response, and answers from the
\* keyspace as it is at that moment.
Respond(call, args, result) ==
    /\ resp.call = ""
    /\ resp' = [call |-> call, args |-> args, exc |-> result.exc,
                key |-> result.key, val |-> result.val, cmds |-> result.cmds]
    /\ UNCHANGED <<db, status, snap, pos, pc, raised, rebuilds, failures>>

call_get_fund == \E n \in FundNameArgs : Respond("get_fund", <<n>>, get_fund(db, n))

call_get_fund_house ==
    \E h \in FundHouseArgs : Respond("get_fund_house", <<h>>, get_fund_house(db, h))

call_search ==
    \E t \in QueryTypeArgs, q \in QueryArgs :
        Respond("search", <<t, q>>, search(db, t, q))

call_fetch_all_funds ==
    \E pg \in PgArgs, count \in CountArgs :
        Respond("fetch_all_funds", <<pg, count>>, fetch_all_funds(db, pg, count))

\* The reader takes the response; it may call again.
reply ==
    /\ resp.call # ""
    /\ resp' = NoResp
    /\ UNCHANGED <<db, status, snap, pos, pc, raised, rebuilds, failures>>

Reads ==
    \/ call_get_fund
    \/ call_get_fund_house
    \/ call_search
    \/ call_fetch_all_funds
    \/ reply

Next == Rebuild \/ Reads

Spec == Init /\ [][Next]_vars

\* ------------------------------------------------------------ direct calls

\* The write operations and replace_prefix called one at a time with arguments
\* of the caller's choosing, in a single process: each call runs to its end.

\* Identifiers without the delimiter, some of them spelled like a prefix.
IdArgs == {"a", "FUND", "SCHEME_SUB_TYPE"}

PrefixArgs ==
    {SCHEME_TYPE_PREFIX, SCHEME_SUB_TYPE_PREFIX, SCHEME_SUB_TYPE_FUND_HOUSE_PREFIX,
     FUND_HOUSE_PREFIX, FUND_PREFIX}

\* Keys handed to replace_prefix: built by the write operations, and others.
KeyArgs ==
    {"", "a", "FUND:a", "FUND_HOUSE:H", "xFUND:a", "FUND:xFUND:y",
     "SCHEME_SUB_TYPE:T:S", "SCHEME_SUB_TYPE_FUND_HOUSE:S:H"}

\* The suggestions the four autocompleters hold.
RegisteredCount ==
    Cardinality(UNION {IF AC_TYPES[t].ac_key \in DOMAIN db
                       THEN {<<t, s>> : s \in DOMAIN db[AC_TYPES[t].ac_key].val}
                       ELSE {} : t \in DOMAIN AC_TYPES})

Written(d) ==
    /\ RegisteredCount < MaxRegistered
    /\ db' = d
    /\ UNCHANGED <<status, snap, pos, pc, raised, rebuilds, failures, resp>>

\* AMFINavCache._set_fund(fund)
call_set_fund ==
    \E n \in IdArgs :
        LET fund == Stamp(Fund("9", n, "1", "d1"), "T", "S", "H")
            serialized == serialize_fund(fund)
            fund_key == FUND_PREFIX \o PREFIX_DELIMTER \o fund.SchemeName
        IN  Written(RedisSugAdd(RedisSet(db, fund_key, serialized),
                                FUND_AUTOCOMPLETER_KEY, fund_key, AUTOCOMPLETE_WEIGHT))

\* AMFINavCache._add_fund_house(fund_house_name, fund_scheme_names)
call_add_fund_house ==
    \E fund_house_name \in IdArgs :
        LET fund_house_key == FUND_HOUSE_PREFIX \o PREFIX_DELIMTER \o fund_house_name
        IN  Written(RedisSugAdd(RedisSAdd(db, fund_house_key, {"a"}),
                                FUND_HOUSE_AUTOCOMPLETER_KEY, fund_house_key,
                                AUTOCOMPLETE_WEIGHT))

\* AMFINavCache._add_fund_house_under_sub_type(scheme_sub_type, fund_house_name,
\* fund_scheme_names)
call_add_fund_house_under_sub_type ==
    \E scheme_sub_type \in IdArgs, fund_house_name \in IdArgs :
        LET scheme_sub_type_fund_house_key ==
                SCHEME_SUB_TYPE_FUND_HOUSE_PREFIX \o PREFIX_DELIMTER
                \o scheme_sub_type \o PREFIX_DELIMTER \o fund_house_name
        IN  Written(RedisSugAdd(RedisSAdd(db, scheme_sub_type_fund_house_key, {"a"}),
                                SCHEME_SUB_TYPE_FUND_HOUSE_AUTOCOMPLETER_KEY,
                                scheme_sub_type_fund_house_key, AUTOCOMPLETE_WEIGHT))

\* AMFINavCache._add_scheme_sub_type(scheme_type, scheme_sub_type, fund_house_names)
call_add_scheme_sub_type ==
    \E scheme_type \in IdArgs, scheme_sub_type \in IdArgs :
        LET scheme_sub_type_key ==
                SCHEME_SUB_TYPE_PREFIX \o PREFIX_DELIMTER \o scheme_type
                \o PREFIX_DELIMTER \o scheme_sub_type
        IN  Written(RedisSugAdd(RedisSAdd(db, scheme_sub_type_key, {"H"}),
                                SCHEME_SUB_TYPE_AUTOCOMPLETER_KEY,
                                scheme_sub_type_key, AUTOCOMPLETE_WEIGHT))

\* replace_prefix(prefix, item); a lambda over str.replace, which raises nothing.
call_replace_prefix ==
    \E prefix \in PrefixArgs, item \in KeyArgs :
        Respond("replace_prefix", <<prefix, item>>,
                Returned(replace_prefix(prefix, item), {}))

NextKeys ==
    \/ call_set_fund
    \/ call_add_fund_house
    \/ call_add_fund_house_under_sub_type
    \/ call_add_scheme_sub_type
    \/ call_replace_prefix
    \/ call_search
    \/ reply

SpecKeys == Init /\ [][NextKeys]_vars

\* ------------------------------------------------------------ properties

\* The members of the set at a key, and the suggestions of an autocompleter.
Members(key) == RedisSMembers(db, key).val

Suggestions(ac_key) ==
    IF ac_key \in DOMAIN db /\ db[ac_key].type = "suggest"
    THEN DOMAIN db[ac_key].val ELSE {}

\* The (scheme type, sub-type, fund house, fund) quadruples of a snapshot.
Quadruples(parsed_funds) ==
    UNION {UNION {UNION {{<<t.name, s.name, h.name, h.funds[l]>> :
                             l \in 1..Len(h.funds)} :
                         h \in Range(s.houses)} :
                  s \in Range(t.subs)} :
           t \in Range(parsed_funds)}

\* The fund of quadruple q is reachable at the four hierarchy levels and in the
\* four search namespaces.
ReachableEverywhere(q) ==
    LET t == q[1]
        s == q[2]
        h == q[3]
        f == q[4].SchemeName
    IN  /\ s \in Members("SCHEME_TYPE:" \o t)
        /\ h \in Members("SCHEME_SUB_TYPE:" \o t \o ":" \o s)
        /\ f \in Members("SCHEME_SUB_TYPE_FUND_HOUSE:" \o s \o ":" \o h)
        /\ get_fund_house(db, h).exc = ""
        /\ f \in get_fund_house(db, h).val
        /\ get_fund(db, f).exc = ""
        /\ get_fund(db, f).val.SchemeName = f
        /\ ("FUND:" \o f) \in Suggestions("fund_ac")
        /\ ("FUND_HOUSE:" \o h) \in Suggestions("fund_house_ac")
        /\ ("SCHEME_SUB_TYPE:" \o t \o ":" \o s) \in Suggestions("scheme_sub_type_ac")
        /\ ("SCHEME_SUB_TYPE_FUND_HOUSE:" \o s \o ":" \o h)
               \in Suggestions("scheme_sub_type_fund_house_ac")

\* C1: once a rebuild has completed successfully, every fund of the snapshot it
\* was built from is reachable at all four hierarchy levels (S in the set of T,
\* H in the set of (T,S), the name in the fund set of (S,H) and in the fund set
\* of H), get_fund of the name succeeds, and each of the four autocompleters
\* holds the corresponding key.
C1_RebuildReachesEveryFund ==
    \A w \in Workers :
        status[w] = "completed" =>
            \A q \in Quadruples(Snapshots[snap[w]]) : ReachableEverywhere(q)

\* A rebuild from the two-type snapshot has completed, while a store command of
\* the other worker's rebuild had raised.
C1_Witness ==
    \E w \in Workers :
        /\ status[w] = "completed"
        /\ snap[w] = 2
        /\ failures = 1

\* The step in which worker w applies the SET of _set_fund for fund name n.
SetStep(w, n) ==
    /\ Running(w)
    /\ Task(w).op = "_set_fund"
    /\ Task(w).fund.SchemeName = n
    /\ pc[w] = 0
    /\ pc'[w] = 1

\* get_fund(n) on keyspace d returns the record r.
ReadsRecord(d, n, r) == get_fund(d, n).exc = "" /\ get_fund(d, n).val = r

\* get_fund(n) answers the same on keyspaces d1 and d2.
SameRead(d1, d2, n) ==
    /\ get_fund(d1, n).exc = get_fund(d2, n).exc
    /\ get_fund(d1, n).key = get_fund(d2, n).key
    /\ get_fund(d1, n).exc = "" => get_fund(d1, n).val = get_fund(d2, n).val

NotFound(d, n) ==
    /\ get_fund(d, n).exc = "FundKeyNotFoundError"
    /\ get_fund(d, n).key = n

\* C3: for a fund name that no operation has written (none has at the start,
\* and a name stays unwritten until a SET of it), get_fund raises
\* FundKeyNotFoundError carrying that name; the call issues only a GET and
\* leaves the keyspace as it was.
C3_NeverWrittenIsNotFound ==
    /\ \A n \in FundNameArgs : NotFound(db, n)
    /\ [][\A n \in FundNameArgs :
             (NotFound(db, n) /\ ~ \E w \in Workers : SetStep(w, n))
                 => NotFound(db', n)]_vars
    /\ [][(resp.call = "" /\ resp'.call = "get_fund")
             => /\ db' = db
                /\ \A c \in resp'.cmds : c[1] = "GET"]_vars

\* A reader asked for a name never written, in a keyspace that holds other
\* funds, and got FundKeyNotFoundError with that name.
C3_Witness ==
    /\ resp.call = "get_fund"
    /\ resp.args = <<"c">>
    /\ resp.exc = "FundKeyNotFoundError"
    /\ resp.key = "c"
    /\ get_fund(db, "a").exc = ""

\* C4 (as claimed): for a fund house whose fund set is empty or absent,
\* get_fund_house raises FundHouseKeyNotFoundError carrying the house name
\* instead of returning an empty set.
C4_EmptyHouseIsNotFound ==
    \A h \in FundHouseArgs :
        Members("FUND_HOUSE:" \o h) = {}
            => /\ get_fund_house(db, h).exc = "FundHouseKeyNotFoundError"
               /\ get_fund_house(db, h).key = h

\* The namespaces search is registered for.
RegisteredTypes == {"fund", "fund_house", "scheme_sub_type", "scheme_sub_type_fund_house"}

\* C5: search with a query type that is not one of the four registered ones
\* raises InvalidQueryTypeError carrying that type, for every query text (the
\* empty one included), and issues no command to any autocompleter.
C5_UnregisteredTypeIsInvalid ==
    \A t \in QueryTypeArgs \ RegisteredTypes, q \in QueryArgs :
        /\ search(db, t, q).exc = "InvalidQueryTypeError"
        /\ search(db, t, q).key = t
        /\ search(db, t, q).cmds = {}

\* A reader searched the unregistered type "scheme_type" with the empty query,
\* in a keyspace whose autocompleters hold suggestions, and got the error.
C5_Witness ==
    /\ resp.call = "search"
    /\ resp.args = <<"scheme_type", "">>
    /\ resp.exc = "InvalidQueryTypeError"
    /\ resp.key = "scheme_type"
    /\ Suggestions("fund_ac") # {}

\* Worker w is in a rebuild that has issued store commands.
HasWritten(w) == status[w] = "running" /\ (pos[w] > 1 \/ pc[w] = 1)

WriterStep(w) ==
    \/ _set_fund(w)
    \/ _add_fund_house_under_sub_type(w)
    \/ _add_fund_house(w)
    \/ _add_scheme_sub_type(w)
    \/ _add_scheme_type(w)

WrittenRecords ==
    {Batches[i][j].fund :
        <<i, j>> \in {<<i, j>> \in (1..Len(Snapshots)) \X (1..20) :
                        j <= Len(Batches[i]) /\ Batches[i][j].op = "_set_fund"}}

\* What get_fund returns is a whole record some _set_fund wrote.
NoMixedRecord ==
    \A n \in FundNameArgs :
        get_fund(db, n).exc = "" =>
            /\ get_fund(db, n).val \in WrittenRecords
            /\ get_fund(db, n).val.SchemeName = n

\* The step in which worker w ends its _set_fund for fund name n.
CompletesWrite(w, n) ==
    /\ Running(w)
    /\ Task(w).op = "_set_fund"
    /\ Task(w).fund.SchemeName = n
    /\ pc[w] = 1
    /\ pos'[w] = pos[w] + 1

\* Worker v's rebuild has ended its _set_fund for fund name n.
HasCompletedWrite(v, n) ==
    /\ status[v] \in {"running", "completed"}
    /\ \E j \in 1..Len(Batch(v)) :
          /\ j < pos[v]
          /\ Batch(v)[j].op = "_set_fund"
          /\ Batch(v)[j].fund.SchemeName = n

\* C7 (as claimed): a read never sees a mix of two records, and of two
\* _set_fund calls for one name the one that completes last leaves its record
\* as the stored value.
C7_LastCompletedWriteWins ==
    /\ []NoMixedRecord
    /\ [][\A n \in FundNameArgs : \A w, v \in Workers :
             (w # v /\ CompletesWrite(w, n) /\ HasCompletedWrite(v, n))
                 => ReadsRecord(db', n, Task(w).fund)]_vars

\* C7 (amended): a read never sees a mix of two records, and the stored value
\* is the record of the _set_fund whose SET was applied last: a SET leaves its
\* record as the value, and a _set_fund that completes (its suggestion is
\* registered after its SET) leaves the value as it was.
C7_LastSetWins ==
    /\ []NoMixedRecord
    /\ [][\A n \in FundNameArgs : \A w \in Workers :
             /\ SetStep(w, n) => ReadsRecord(db', n, Task(w).fund)
             /\ CompletesWrite(w, n) => SameRead(db, db', n)]_vars

\* Two workers have both ended their _set_fund of fund "a" with different
\* records, and a reader calling meanwhile got one of them whole.
C7_Witness ==
    \E w, v \in Workers :
        /\ HasCompletedWrite(w, "a")
        /\ HasCompletedWrite(v, "a")
        /\ snap[w] = 1
        /\ snap[v] = 2
        /\ resp.call = "get_fund"
        /\ resp.args = <<"a">>
        /\ resp.exc = ""
        /\ resp.val \in WrittenRecords
        /\ ReadsRecord(db, "a", resp.val)

\* A reader's call of the named operation is answered in this step.
Answers(call) == resp.call = "" /\ resp'.call = call

\* The fund names the keyspace holds: what follows "FUND:" in its keys.
StoredFundNames ==
    {SubSeq(k, 6, Len(k)) : k \in {k \in DOMAIN db : SubSeq(k, 1, 5) = "FUND:"}}

\* The 0-based place of a name among the stored names in ascending order.
Rank(n) == Cardinality({m \in StoredFundNames : StrLess(m, n)})

Min(a, b) == IF a < b THEN a ELSE b

\* C8: for page index pg >= 0 and page size count in 1..1000, fetch_all_funds
\* answers with items the slice [pg*count, pg*count+count) of all fund names
\* of the store in ascending lexicographic order, and with last
\* floor(total / count).
C8_PageIsSliceOfSortedNames ==
    [][(Answers("fetch_all_funds") /\ resp'.args[2] \in 1..1000) =>
          LET pg == resp'.args[1]
              count == resp'.args[2]
              total == Cardinality(StoredFundNames)
              rest == total - pg * count
          IN  /\ resp'.exc = ""
              /\ resp'.val.pg = pg
              /\ Len(resp'.val.items) = (IF rest < 0 THEN 0 ELSE Min(count, rest))
              /\ \A i \in 1..Len(resp'.val.items) :
                    /\ resp'.val.items[i] \in StoredFundNames
                    /\ Rank(resp'.val.items[i]) = pg * count + i - 1
              /\ resp'.val.last * count <= total
              /\ total < (resp'.val.last + 1) * count]_vars

\* A reader got the second page of size 2 of the three funds "a", "ab", "b":
\* the one name "b", and 1 as the last page.
C8_Witness ==
    /\ resp.call = "fetch_all_funds"
    /\ resp.args = <<1, 2>>
    /\ resp.exc = ""
    /\ resp.val.items = <<"b">>
    /\ resp.val.last = 1
    /\ StoredFundNames = {"a", "ab", "b"}

\* The places (snapshot, task) of the tasks with operation op.
TasksOf(op) ==
    {<<i, j>> \in (1..Len(Snapshots)) \X (1..20) :
        j <= Len(Batches[i]) /\ Batches[i][j].op = op}

\* For each search namespace, the suggestions its add operation registers for
\* the snapshots, each with the identifier it stands for.
RegisteredIdsOf ==
    [t \in RegisteredTypes |->
        CASE t = "fund" ->
                {<<"FUND:" \o Batches[p[1]][p[2]].fund.SchemeName,
                   Batches[p[1]][p[2]].fund.SchemeName>> : p \in TasksOf("_set_fund")}
          [] t = "fund_house" ->
                {<<"FUND_HOUSE:" \o Batches[p[1]][p[2]].fund_house_name,
                   Batches[p[1]][p[2]].fund_house_name>> :
                    p \in TasksOf("_add_fund_house")}
          [] t = "scheme_sub_type" ->
                {<<"SCHEME_SUB_TYPE:" \o Batches[p[1]][p[2]].scheme_type \o ":"
                       \o Batches[p[1]][p[2]].scheme_sub_type,
                   <<Batches[p[1]][p[2]].scheme_type,
                     Batches[p[1]][p[2]].scheme_sub_type>> >> :
                    p \in TasksOf("_add_scheme_sub_type")}
          [] t = "scheme_sub_type_fund_house" ->
                {<<"SCHEME_SUB_TYPE_FUND_HOUSE:" \o Batches[p[1]][p[2]].scheme_sub_type
                       \o ":" \o Batches[p[1]][p[2]].fund_house_name,
                   <<Batches[p[1]][p[2]].scheme_sub_type,
                     Batches[p[1]][p[2]].fund_house_name>> >> :
                    p \in TasksOf("_add_fund_house_under_sub_type")}]

RegisteredIds(t) == RegisteredIdsOf[t]

RegisteredByOf == [t \in RegisteredTypes |-> {p[1] : p \in RegisteredIdsOf[t]}]

RegisteredBy(t) == RegisteredByOf[t]

\* The autocompleter of each search namespace.
AcOf(t) ==
    CASE t = "fund" -> "fund_ac"
      [] t = "fund_house" -> "fund_house_ac"
      [] t = "scheme_sub_type" -> "scheme_sub_type_ac"
      [] t = "scheme_sub_type_fund_house" -> "scheme_sub_type_fund_house_ac"

\* The prefix search puts before the query text in namespace t.
PrefixOf(t) ==
    CASE t = "fund" -> "FUND:"
      [] t = "fund_house" -> "FUND_HOUSE:"
      [] t = "scheme_sub_type" -> "SCHEME_SUB_TYPE:"
      [] t = "scheme_sub_type_fund_house" -> "SCHEME_SUB_TYPE_FUND_HOUSE:"

\* The suggestions the backend returns to search(t, q).
RawHits(t, q) == RedisSugGet(db, AcOf(t), PrefixOf(t) \o q, TRUE)

\* C9: the four search namespaces are isolated: whatever has been written,
\* when search on a namespace is answered, for any query text, no suggestion
\* registered through another namespace's add operation is in the searched
\* autocompleter or among the backend's hits, and every identifier returned
\* stands for a suggestion registered through the searched namespace's own
\* add operation.
C9_NamespacesAreIsolated ==
    [][(Answers("search") /\ resp'.args[1] \in RegisteredTypes) =>
          LET u == resp'.args[1]
              q == resp'.args[2]
          IN  /\ resp'.exc = ""
              /\ \A t \in RegisteredTypes \ {u} :
                    /\ Suggestions(AcOf(u)) \cap RegisteredBy(t) = {}
                    /\ RawHits(u, q) \cap RegisteredBy(t) = {}
              /\ Suggestions(AcOf(u)) \subseteq RegisteredBy(u)
              /\ resp'.val \subseteq {p[2] : p \in RegisteredIds(u)}]_vars

\* All four autocompleters hold suggestions and a reader's search of the fund
\* namespace with the empty query returned fund names only.
C9_Witness ==
    /\ \A t \in RegisteredTypes : Suggestions(AcOf(t)) # {}
    /\ resp.call = "search"
    /\ resp.args = <<"fund", "">>
    /\ resp.exc = ""
    /\ resp.val = {"a", "b"}

\* No suggestion of namespace t matches query text q.
NoMatch(t, q) ==
    \A s \in Suggestions(AcOf(t)) : ~ SugMatches(s, PrefixOf(t) \o q, TRUE)

\* C10 (as claimed): in a registered namespace, a search with the empty query,
\* or with a query that matches no suggestion, is answered with the empty list
\* and no error, whatever the namespace holds.
C10_EmptyQueryReturnsNothing ==
    [][(/\ Answers("search")
        /\ resp'.args[1] \in RegisteredTypes
        /\ resp'.args[2] = "" \/ NoMatch(resp'.args[1], resp'.args[2])) =>
          /\ resp'.exc = ""
          /\ resp'.val = {}]_vars

\* C10 (amended): in a registered namespace a search never raises; with a
\* query that matches no suggestion it is answered with the empty list; with
\* the empty query it asks the autocompleter for the bare prefix, which every
\* suggestion of the namespace starts with, and is answered with the
\* identifier of each of them.
C10_EmptyQueryReturnsAll ==
    [][(Answers("search") /\ resp'.args[1] \in RegisteredTypes) =>
          LET t == resp'.args[1]
              q == resp'.args[2]
          IN  /\ resp'.exc = ""
              /\ NoMatch(t, q) => resp'.val = {}
              /\ q = "" =>
                    resp'.val =
                        {p[2] : p \in {p \in RegisteredIds(t) :
                                          p[1] \in Suggestions(AcOf(t))}}]_vars

\* A reader's search of the sub-type namespace with the empty query returned
\* both registered (scheme type, sub-type) pairs, and a query matching nothing
\* would return none.
C10_Witness ==
    /\ resp.call = "search"
    /\ resp.args = <<"scheme_sub_type", "">>
    /\ resp.exc = ""
    /\ resp.val = {<<"T", "S">>, <<"U", "S">>}
    /\ Suggestions("scheme_sub_type_ac") # {}
    /\ NoMatch("scheme_sub_type", "zz")

\* Every key of keyspace d1 is a key of d2 with the same type, and every set of
\* d1 is included in the set d2 holds at the same key.
Includes(d2, d1) ==
    \A k \in DOMAIN d1 :
        /\ k \in DOMAIN d2
        /\ d2[k].type = d1[k].type
        /\ d1[k].type = "set" => d1[k].val \subseteq d2[k].val

\* C11: the cache is append-only: no step of any operation or rebuild removes
\* a key or a member of a set, so every hierarchy set and the set of FUND keys
\* only grow, and what get_fund, get_fund_house and get_all_funds returned
\* they keep returning: a fund written by an earlier rebuild and absent from a
\* later snapshot is still returned by all three.
C11_AppendOnly ==
    [][/\ Includes(db', db)
       /\ \A n \in FundNameArgs :
             get_fund(db, n).exc = "" => get_fund(db', n).exc = ""
       /\ \A h \in FundHouseArgs :
             get_fund_house(db, h).val \subseteq get_fund_house(db', h).val
       /\ Range(get_all_funds(db)) \subseteq Range(get_all_funds(db'))
       /\ get_fund_count(db) <= get_fund_count(db')]_vars

\* A rebuild from SnapOld and a rebuild from SnapOther, which has no fund "a",
\* have both completed, and fund "a" is still returned by the three reads.
C11_Witness ==
    \E w, v \in Workers :
        /\ status[w] = "completed" /\ snap[w] = 1
        /\ status[v] = "completed" /\ snap[v] = 3
        /\ get_fund(db, "a").exc = ""
        /\ "a" \in get_fund_house(db, "H").val
        /\ "a" \in Range(get_all_funds(db))
        /\ "b" \in get_fund_house(db, "G").val

\* For each search namespace, the keys its write operation builds for the
\* identifiers of IdArgs, each with the identifier (or pair) it was built from.
KeyIdsOf ==
    [t \in RegisteredTypes |->
        CASE t = "fund" -> {<<"FUND:" \o n, n>> : n \in IdArgs}
          [] t = "fund_house" -> {<<"FUND_HOUSE:" \o h, h>> : h \in IdArgs}
          [] t = "scheme_sub_type" ->
                {<<"SCHEME_SUB_TYPE:" \o p[1] \o ":" \o p[2], p>> :
                    p \in IdArgs \X IdArgs}
          [] t = "scheme_sub_type_fund_house" ->
                {<<"SCHEME_SUB_TYPE_FUND_HOUSE:" \o p[1] \o ":" \o p[2], p>> :
                    p \in IdArgs \X IdArgs}]

\* C12 (as claimed): the search key-transform inverts key construction: for
\* identifiers without the delimiter registered by a write operation, what
\* search returns for a hit is exactly the identifier in the fund and
\* fund_house namespaces and exactly the pair in key order in the two
\* composite namespaces, never a prefix or a raw key.
C12_TransformInvertsKey ==
    [][(Answers("search") /\ resp'.args[1] \in RegisteredTypes) =>
          LET t == resp'.args[1]
              q == resp'.args[2]
          IN  /\ resp'.exc = ""
              /\ resp'.val =
                    {p[2] : p \in {p \in KeyIdsOf[t] : p[1] \in RawHits(t, q)}}]_vars

\* The text p occurs in the text s.
Occurs(s, p) == \E i \in 1..(Len(s) - Len(p) + 1) : SubSeq(s, i, i + Len(p) - 1) = p

\* The key begins with the prefix followed by the delimiter.
WellFormed(prefix, key) ==
    /\ Len(key) >= Len(prefix) + 1
    /\ SubSeq(key, 1, Len(prefix)) = prefix
    /\ SubSeq(key, Len(prefix) + 1, Len(prefix) + 1) = ":"

\* What follows the leading prefix and delimiter of a key.
Remainder(prefix, key) == SubSeq(key, Len(prefix) + 2, Len(key))

Ends(w) == status[w] = "running" /\ status'[w] # "running"

\* C14: a rebuild moves idle -> running -> completed or failed. It ends (and
\* it always does) only when every task of its batch has run; it ends
\* completed only if none of them raised and failed if any did; and the step
\* that ends it, like every other step, leaves every write already applied in
\* the store: after a failure nothing is rolled back.
C14_RebuildLifecycle ==
    /\ [][\A w \in Workers :
             /\ status'[w] # status[w] =>
                   \/ status[w] # "running" /\ status'[w] = "running"
                   \/ status[w] = "running" /\ status'[w] \in {"completed", "failed"}
             /\ Ends(w) =>
                   /\ pos[w] = Len(Batch(w)) + 1
                   /\ status'[w] = "completed" <=> ~ raised[w]
                   /\ status'[w] = "failed" <=> raised[w]
                   /\ db' = db
             /\ Includes(db', db)]_vars
    /\ \A w \in Workers :
          /\ (status[w] = "running") ~> (status[w] \in {"completed", "failed"})
          /\ (status[w] = "running" /\ raised[w]) ~> (status[w] = "failed")

\* After a completed rebuild from SnapOld, a rebuild from SnapNew has failed:
\* its write of fund "a" raised and its other writes were applied, so the
\* store holds the old record of "a" next to the new fund "b".
C14_Witness ==
    \E w, v \in Workers :
        /\ status[v] = "completed" /\ snap[v] = 1
        /\ status[w] = "failed" /\ snap[w] = 2
        /\ get_fund(db, "a").exc = "" /\ get_fund(db, "a").val.NAV = "10"
        /\ get_fund(db, "b").exc = ""
        /\ "b" \in get_fund_house(db, "H").val

\* The fund names whose SET is applied in this step.
NamesSet == {n \in FundNameArgs : \E w \in Workers : SetStep(w, n)}

\* get_all_funds lists each name once, and get_fund_count counts what it lists.
ListsEachOnce(d) ==
    LET listed == get_all_funds(d)
    IN  /\ Len(listed) = Cardinality(Range(listed))
        /\ get_fund_count(d) = Len(listed)
        /\ Range(listed) \subseteq FundNameArgs

\* C15: after any sequence of write and add operations, get_all_funds returns
\* exactly the scheme names _set_fund has been applied to so far (none at the
\* start, and each step adds exactly the names it SETs), each once and without
\* the FUND prefix, and get_fund_count is their number; the keys the add
\* operations write in the other four namespaces are never listed or counted.
C15_ListsExactlyWrittenFunds ==
    /\ get_all_funds(db) = <<>>
    /\ get_fund_count(db) = 0
    /\ [][db' # db =>
             /\ Range(get_all_funds(db')) = Range(get_all_funds(db)) \cup NamesSet
             /\ ListsEachOnce(db')]_vars
    /\ [][db' = db => NamesSet \subseteq Range(get_all_funds(db))]_vars

\* The store holds keys of all five namespaces and get_all_funds lists the
\* three funds written, get_fund_count counting three.
C15_Witness ==
    /\ get_all_funds(db) = <<"a", "ab", "b">>
    /\ get_fund_count(db) = 3
    /\ Members("FUND_HOUSE:H") # {}
    /\ Members("SCHEME_TYPE:T") # {}
    /\ Members("SCHEME_SUB_TYPE:T:S") # {}
    /\ Members("SCHEME_SUB_TYPE_FUND_HOUSE:S:H") # {}

\* The scheme types of the snapshots, and the sub-types they have anywhere.
TypeNames == UNION {{q[1] : q \in Quadruples(Snapshots[i])} : i \in 1..Len(Snapshots)}

SubTypeNames == UNION {{q[2] : q \in Quadruples(Snapshots[i])} : i \in 1..Len(Snapshots)}

HouseNames == UNION {{q[3] : q \in Quadruples(Snapshots[i])} : i \in 1..Len(Snapshots)}

\* The fund houses snapshot i lists under scheme type t, sub-type s.
HousesUnder(i, t, s) ==
    {q[3] : q \in {q \in Quadruples(Snapshots[i]) : q[1] = t /\ q[2] = s}}

\* C16: the fund-house set of a sub-type is kept per (scheme type, sub-type):
\* when a rebuild from a snapshot has completed, the house set of (T, S) holds
\* every fund house the snapshot lists under T/S, and in every state it holds
\* only fund houses some snapshot lists under T/S -- never one that occurs
\* only under another scheme type's sub-type of the same name.
C16_HousesPerTypeAndSubType ==
    \A t \in TypeNames, s \in SubTypeNames :
        /\ \A w \in Workers :
              status[w] = "completed" =>
                  HousesUnder(snap[w], t, s)
                      \subseteq Members("SCHEME_SUB_TYPE:" \o t \o ":" \o s)
        /\ Members("SCHEME_SUB_TYPE:" \o t \o ":" \o s)
              \subseteq UNION {HousesUnder(i, t, s) : i \in 1..Len(Snapshots)}

\* A rebuild from SnapNew, where sub-type "S" is under both "T" (house "H")
\* and "U" (houses "H" and "G"), has completed: the house set of (T, S) is
\* {"H"} and that of (U, S) is {"H", "G"}.
C16_Witness ==
    \E w \in Workers :
        /\ status[w] = "completed"
        /\ snap[w] = 2
        /\ Members("SCHEME_SUB_TYPE:T:S") = {"H"}
        /\ Members("SCHEME_SUB_TYPE:U:S") = {"H", "G"}

\* The fund names snapshot i lists under scheme type t, sub-type s, house h.
FundsUnder(i, t, s, h) ==
    {q[4].SchemeName :
        q \in {q \in Quadruples(Snapshots[i]) : q[1] = t /\ q[2] = s /\ q[3] = h}}

\* C17 (as claimed): the fund set of a fund house within a sub-type never
\* mixes scheme types: when a rebuild has completed from a snapshot in which
\* two scheme types both have a sub-type S containing fund house H, no stored
\* set holds the funds of H under the one together with those under the other.
C17_FundSetsNotMergedAcrossTypes ==
    \A w \in Workers :
        status[w] = "completed" =>
            \A s \in SubTypeNames, h \in HouseNames :
                \A t1 \in TypeNames, t2 \in TypeNames :
                    (/\ t1 # t2
                     /\ FundsUnder(snap[w], t1, s, h) # {}
                     /\ FundsUnder(snap[w], t2, s, h) # {}) =>
                        ~ (FundsUnder(snap[w], t1, s, h) \cup FundsUnder(snap[w], t2, s, h)
                               \subseteq Members("SCHEME_SUB_TYPE_FUND_HOUSE:" \o s \o ":" \o h))

\* C18: in every reachable state -- between the store commands of rebuilds in
\* flight and after a failed rebuild as well -- every hit search returns is
\* backed by a readable entry: each name search("fund", q) returns has a
\* stored record (get_fund succeeds) and each name search("fund_house", q)
\* returns has a non-empty fund set.
C18_SearchHitsAreReadable ==
    \A q \in QueryArgs :
        /\ search(db, "fund", q).exc = ""
        /\ \A n \in search(db, "fund", q).val :
              /\ get_fund(db, n).exc = ""
              /\ get_fund(db, n).val.SchemeName = n
        /\ search(db, "fund_house", q).exc = ""
        /\ \A h \in search(db, "fund_house", q).val :
              /\ get_fund_house(db, h).exc = ""
              /\ get_fund_house(db, h).val # {}

\* A rebuild has failed after the store command that registers the suggestion
\* of fund "a" raised: the record of "a" is stored and search does not return
\* it, while it returns other funds and fund houses, all readable.
C18_Witness ==
    \E w \in Workers :
        /\ status[w] = "failed"
        /\ get_fund(db, "a").exc = ""
        /\ "a" \notin search(db, "fund", "").val
        /\ "b" \in search(db, "fund", "").val
        /\ "H" \in search(db, "fund_house", "").val

\* No rebuild is running and none has had a task raise: the rebuilds made so
\* far, from the empty store, have all completed.
AllCompleted ==
    /\ failures = 0
    /\ \A w \in Workers : status[w] \in {"idle", "completed"}

\* C19: after any sequence of completed rebuilds starting from an empty store,
\* for every fund house H the global fund set of H equals the union, over all
\* sub-types S, of the fund sets of H within S.
C19_HouseSetIsUnionOverSubTypes ==
    AllCompleted =>
        \A h \in HouseNames \cup FundHouseArgs :
            get_fund_house(db, h).val =
                UNION {Members("SCHEME_SUB_TYPE_FUND_HOUSE:" \o s \o ":" \o h) :
                          s \in SubTypeNames}

\* Rebuilds from SnapNew and from SnapOther have completed: fund house "G" has
\* fund "ab" within sub-type "S" and fund "b" within sub-type "R", and its
\* global fund set is the two together.
C19_Witness ==
    /\ AllCompleted
    /\ \E w, v \in Workers :
          /\ status[w] = "completed" /\ snap[w] = 2
          /\ status[v] = "completed" /\ snap[v] = 3
    /\ Members("SCHEME_SUB_TYPE_FUND_HOUSE:S:G") = {"ab"}
    /\ Members("SCHEME_SUB_TYPE_FUND_HOUSE:R:G") = {"b"}
    /\ get_fund_house(db, "G").val = {"ab", "b"}

\* The fund houses some snapshot lists the fund name f under.
HousesOfFund(f) ==
    UNION {{q[3] : q \in {q \in Quadruples(Snapshots[i]) : q[4].SchemeName = f}} :
              i \in 1..Len(Snapshots)}

\* C20 (as claimed): after any sequence of completed rebuilds, from snapshots
\* in which each scheme name occurs once, for every fund house H and every
\* name f in get_fund_house(H) the record get_fund(f) returns has
\* SchemeFundHouse = H, and f is in the fund set of H within that record's
\* SchemeSubType.
C20_StampsAgreeWithHouseSets ==
    AllCompleted =>
        \A h \in HouseNames : \A f \in get_fund_house(db, h).val :
            /\ get_fund(db, f).exc = ""
            /\ get_fund(db, f).val.SchemeFundHouse = h
            /\ f \in Members("SCHEME_SUB_TYPE_FUND_HOUSE:"
                             \o get_fund(db, f).val.SchemeSubType \o ":" \o h)

\* C20 (amended): after any sequence of completed rebuilds, the hierarchy
\* holds every stored record under its stamps: for every record r get_fund
\* returns, r.SchemeName is in get_fund_house(r.SchemeFundHouse) and in the
\* fund set of r.SchemeFundHouse within r.SchemeSubType. In the other
\* direction, every name f in get_fund_house(H) has a stored record and H is a
\* fund house some snapshot lists f under, but the record carries the stamps
\* of the last write: when f has moved to another fund house, the set of H
\* still holds f.
C20_RecordsAreUnderTheirStamps ==
    AllCompleted =>
        /\ \A f \in FundNameArgs :
              get_fund(db, f).exc = "" =>
                  LET r == get_fund(db, f).val
                  IN  /\ r.SchemeName = f
                      /\ f \in get_fund_house(db, r.SchemeFundHouse).val
                      /\ f \in Members("SCHEME_SUB_TYPE_FUND_HOUSE:"
                                       \o r.SchemeSubType \o ":" \o r.SchemeFundHouse)
        /\ \A h \in HouseNames : \A f \in get_fund_house(db, h).val :
              /\ get_fund(db, f).exc = ""
              /\ h \in HousesOfFund(f)

\* Rebuilds from SnapNew and from SnapOther have completed: fund "b", moved
\* from house "H" to house "G", is still in the fund set of "H" while its
\* record is stamped "G".
C20_Witness ==
    /\ AllCompleted
    /\ \E w, v \in Workers :
          /\ status[w] = "completed" /\ snap[w] = 2
          /\ status[v] = "completed" /\ snap[v] = 3
    /\ "b" \in get_fund_house(db, "H").val
    /\ "b" \in get_fund_house(db, "G").val
    /\ get_fund(db, "b").val.SchemeFundHouse = "G"
    /\ get_fund(db, "b").val.SchemeSubType = "R"

====
